---- MODULE Spec2Model ----
(***************************************************************************)
(* The recurring matching-and-bidding engine of openwork:                  *)
(*   - the engine (app/api/autopilot/engine.ts): start / stop / timer /    *)
(*     status, each runCycle() POSTing to the autopilot route;             *)
(*   - the cycle handler (app/api/autopilot/route.ts, POST): load the bid  *)
(*     ledger, fetch the jobs, filter, sort, submit, record;               *)
(*   - the bid ledger (the bids route: loadBids / saveBids, GET, POST,     *)
(*     PATCH over data/bids.json).                                         *)
(* Every await of the source is a step boundary; the synchronous code      *)
(* between two awaits is one atomic step (run to completion).              *)
(* Texts are sequences of one-character strings, so that toLowerCase and   *)
(* String.includes are computed, not assumed.                              *)
(* Not modelled: the submission text (generateEliteSubmission), the        *)
(* activity log, wall-clock timestamps, jobTitle.                          *)
(***************************************************************************)
EXTENDS Integers, Sequences, FiniteSets, TLC

\* ------------------------------------------------------------------ bounds
\* number of autopilot POST handlers that may be in flight together
MaxCycles == 2
\* number of cycles the engine, resp. manual callers, may begin
MaxEngineCycles == 2
MaxManualCycles == 1
\* number of requests an external client sends to the bids route
MaxExternal == 2
\* number of environment failures (ledger read/write, job fetch)
MaxFaults == 1
\* retained-history cap of the bids route (100 in the source) and the
\* window GET returns (50 in the source), scaled down together
RetainCap == 4
ReadWindow == 2
MaxSpends == 1
MaxTicks == 5
MaxNotifications == 1

\* ------------------------------------------------------- program constants
\* engine.ts runCycle body: { minMatchScore: 5, maxBids: 3 }
EngineMinMatchScore == 5
EngineMaxBids == 3
\* route.ts POST defaults: { minMatchScore = 10, maxBids = 10 }
DefaultMinMatchScore == 10
DefaultMaxBids == 10
\* findBestAgent: score += 12 per skill found
SkillWeight == 12
ThresholdNum == 5
ThresholdDen == 100
expirationMinutes == 60

\* ------------------------------------------------------------------- texts
UpperChars ==
    <<"A", "B", "C", "D", "E", "F", "G", "H", "I", "J", "K", "L", "M",
      "N", "O", "P", "Q", "R", "S", "T", "U", "V", "W", "X", "Y", "Z">>
LowerChars ==
    <<"a", "b", "c", "d", "e", "f", "g", "h", "i", "j", "k", "l", "m",
      "n", "o", "p", "q", "r", "s", "t", "u", "v", "w", "x", "y", "z">>

\* String.prototype.toLowerCase, one character
toLowerChar(c) ==
    IF \E k \in 1..Len(UpperChars) : UpperChars[k] = c
    THEN LowerChars[CHOOSE k \in 1..Len(UpperChars) : UpperChars[k] = c]
    ELSE c

\* String.prototype.toLowerCase
toLowerCase(s) == [k \in 1..Len(s) |-> toLowerChar(s[k])]

\* String.prototype.includes: needle occurs as a contiguous substring
includes(s, needle) ==
    \E k \in 0..(Len(s) - Len(needle)) :
        \A m \in 1..Len(needle) : s[k + m] = needle[m]

\* Array.prototype.join(' ')
RECURSIVE join(_)
join(ws) ==
    IF Len(ws) = 0 THEN <<>>
    ELSE IF Len(ws) = 1 THEN ws[1]
    ELSE ws[1] \o <<" ">> \o join(Tail(ws))

\* ------------------------------------------------------------------ agents
AgentOrder == <<"BACKEND", "CONTRACT", "FRONTEND", "PM">>

AGENT_NAMES ==
    [BACKEND |-> "NEXUS", CONTRACT |-> "FORGE", FRONTEND |-> "PRISM", PM |-> "CORTEX"]

BACKEND_skills ==
    << <<"a", "p", "i">>,
       <<"a", "u", "t", "o", "m", "a", "t", "i", "o", "n">>,
       <<"b", "a", "c", "k", "e", "n", "d">>,
       <<"n", "o", "d", "e", "j", "s">>,
       <<"p", "y", "t", "h", "o", "n">>,
       <<"b", "o", "t">>,
       <<"s", "c", "r", "i", "p", "t">>,
       <<"s", "c", "r", "a", "p", "i", "n", "g">>,
       <<"d", "a", "t", "a">>,
       <<"s", "e", "r", "v", "e", "r">>,
       <<"d", "a", "t", "a", "b", "a", "s", "e">>,
       <<"w", "e", "b", "h", "o", "o", "k">> >>

CONTRACT_skills ==
    << <<"s", "o", "l", "i", "d", "i", "t", "y">>,
       <<"s", "m", "a", "r", "t", "-", "c", "o", "n", "t", "r", "a", "c", "t", "s">>,
       <<"b", "l", "o", "c", "k", "c", "h", "a", "i", "n">>,
       <<"w", "e", "b", "3">>,
       <<"d", "e", "f", "i">>,
       <<"t", "o", "k", "e", "n">>,
       <<"s", "w", "a", "p">>,
       <<"n", "f", "t">>,
       <<"w", "a", "l", "l", "e", "t">>,
       <<"b", "a", "s", "e">>,
       <<"e", "t", "h", "e", "r", "e", "u", "m">>,
       <<"c", "r", "y", "p", "t", "o">>,
       <<"t", "r", "a", "d", "i", "n", "g">> >>

FRONTEND_skills ==
    << <<"f", "r", "o", "n", "t", "e", "n", "d">>,
       <<"r", "e", "a", "c", "t">>,
       <<"n", "e", "x", "t", "j", "s">>,
       <<"u", "i">>,
       <<"d", "a", "s", "h", "b", "o", "a", "r", "d">>,
       <<"d", "e", "s", "i", "g", "n">>,
       <<"w", "e", "b", "s", "i", "t", "e">>,
       <<"a", "p", "p">>,
       <<"c", "h", "a", "r", "t">>,
       <<"v", "i", "s", "u", "a", "l">>,
       <<"t", "y", "p", "e", "s", "c", "r", "i", "p", "t">>,
       <<"t", "a", "i", "l", "w", "i", "n", "d">> >>

PM_skills ==
    << <<"r", "e", "s", "e", "a", "r", "c", "h">>,
       <<"a", "n", "a", "l", "y", "s", "i", "s">>,
       <<"l", "i", "s", "t">>,
       <<"f", "i", "n", "d">>,
       <<"c", "o", "m", "p", "a", "r", "e">>,
       <<"r", "e", "p", "o", "r", "t">>,
       <<"s", "t", "r", "a", "t", "e", "g", "y">>,
       <<"w", "r", "i", "t", "i", "n", "g">>,
       <<"c", "o", "n", "t", "e", "n", "t">>,
       <<"m", "a", "r", "k", "e", "t", "i", "n", "g">>,
       <<"d", "i", "s", "c", "o", "v", "e", "r">>,
       <<"e", "v", "a", "l", "u", "a", "t", "e">>,
       <<"w", "e", "l", "c", "o", "m", "e">>,
       <<"i", "n", "t", "r", "o", "d", "u", "c", "e">>,
       <<"s", "o", "c", "i", "a", "l">>,
       <<"p", "o", "s", "t">>,
       <<"s", "t", "r", "e", "a", "k">>,
       <<"c", "o", "m", "m", "u", "n", "i", "t", "y">>,
       <<"e", "n", "g", "a", "g", "e", "m", "e", "n", "t">>,
       <<"m", "o", "l", "t", "g", "r", "a", "m">>,
       <<"c", "l", "a", "w", "s">>,
       <<"g", "u", "i", "d", "e">>,
       <<"o", "n", "b", "o", "a", "r", "d", "i", "n", "g">> >>

\* AGENTS[agent].skills
AGENTS ==
    [BACKEND |-> BACKEND_skills, CONTRACT |-> CONTRACT_skills,
     FRONTEND |-> FRONTEND_skills, PM |-> PM_skills]

\* -------------------------------------------------------------------- jobs
\* The marketplace's job catalogue (the Job interface): what /jobs/match
\* may return.  j1 matches four BACKEND skills (and "ui" inside "build"),
\* j2 matches nothing, j3 matches one CONTRACT skill, j4 is not open,
\* j5 has no reward.
JobIds == {"j1", "j2", "j3", "j4", "j5"}

Job ==
    [j1 |-> [id |-> "j1", title |-> <<"A", "P", "I", " ", "B", "o", "t">>,
             description |-> <<"b", "u", "i", "l", "d", " ", "a", " ", "w", "e", "b", "h", "o", "o", "k">>,
             tags |-> << <<"b", "a", "c", "k", "e", "n", "d">> >>,
             reward |-> 500, status |-> "open"],
     j2 |-> [id |-> "j2", title |-> <<"L", "o", "g", "o">>,
             description |-> <<"d", "r", "a", "w">>,
             tags |-> << >>,
             reward |-> 300, status |-> "open"],
     j3 |-> [id |-> "j3", title |-> <<"N", "F", "T">>,
             description |-> <<"m", "i", "n", "t">>,
             tags |-> << >>,
             reward |-> 500, status |-> "open"],
     j4 |-> [id |-> "j4", title |-> <<"T", "o", "k", "e", "n", " ", "S", "w", "a", "p">>,
             description |-> << >>,
             tags |-> << >>,
             reward |-> 200, status |-> "claimed"],
     j5 |-> [id |-> "j5", title |-> <<"R", "e", "a", "c", "t", " ", "U", "I">>,
             description |-> << >>,
             tags |-> << >>,
             reward |-> 0, status |-> "open"]]

\* the job lists one call of /jobs/match may return
Feeds == { <<"j2", "j3", "j1", "j4", "j5">>, <<"j1">> }

\* ---------------------------------------------------------------- matching
\* findBestAgent, inner loop: the score of one agent's skills on the text
\* a scoring that adds the weight at every place a skill is found
RECURSIVE skillScore_PerOccurrence(_, _)
skillScore_PerOccurrence(combined, skills) ==
    IF Len(skills) = 0 THEN 0
    ELSE LET n == Len(skills[1])
             places == {i \in 1..(Len(combined) - n + 1) :
                           SubSeq(combined, i, i + n - 1) = skills[1]}
         IN  SkillWeight * Cardinality(places)
             + skillScore_PerOccurrence(combined, Tail(skills))

RECURSIVE skillScore(_, _)
skillScore(combined, skills) ==
    IF Len(skills) = 0 THEN 0
    ELSE (IF includes(combined, skills[1]) THEN SkillWeight ELSE 0)
         + skillScore(combined, Tail(skills))

\* findBestAgent, the text scanned
combinedText(job) ==
    toLowerCase(job.title \o <<" ">> \o job.description \o <<" ">> \o join(job.tags))

\* an agent loop in which a later agent with an equal score takes over
RECURSIVE bestFrom_LastWins(_, _, _)
bestFrom_LastWins(combined, k, best) ==
    IF k > Len(AgentOrder) THEN best
    ELSE LET agent == AgentOrder[k]
             score == skillScore(combined, AGENTS[agent])
         IN  bestFrom_LastWins(combined, k + 1,
                               IF score >= best.score /\ score > 0
                               THEN [agent |-> agent, score |-> score]
                               ELSE best)

\* findBestAgent, outer loop over Object.entries(AGENTS) from agent k on
RECURSIVE bestFrom(_, _, _)
bestFrom(combined, k, best) ==
    IF k > Len(AgentOrder) THEN best
    ELSE LET agent == AgentOrder[k]
             score == skillScore(combined, AGENTS[agent])
         IN  bestFrom(combined, k + 1,
                      IF score > best.score
                      THEN [agent |-> agent, score |-> score]
                      ELSE best)

findBestAgent(job) ==
    bestFrom(combinedText(job), 1, [agent |-> "PM", score |-> 0])

\* findBestAgent of every catalogue job, computed once
BestAgentOf == [j \in JobIds |-> findBestAgent(Job[j])]


\* ---------------------------------------------------------------- messages
\* what the marketplace answers to POST /jobs/{id}/submit (submitToJob):
\* response.ok, a rejection for a duplicate, a rejection with HTTP 500
MsgSubmitted == "Submitted!"
MsgAlready == "Already submitted to this job"
MsgFailed500 == "Failed (500)"

MessageText ==
    (MsgSubmitted :> <<"S", "u", "b", "m", "i", "t", "t", "e", "d", "!">>)
    @@ (MsgAlready :> <<"A", "l", "r", "e", "a", "d", "y", " ", "s", "u", "b", "m", "i", "t", "t", "e", "d",
                        " ", "t", "o", " ", "t", "h", "i", "s", " ", "j", "o", "b">>)
    @@ (MsgFailed500 :> <<"F", "a", "i", "l", "e", "d", " ", "(", "5", "0", "0", ")">>)

AlreadySubmittedText ==
    <<"a", "l", "r", "e", "a", "d", "y", " ", "s", "u", "b", "m", "i", "t", "t", "e", "d">>

\* submitToJob: the { success, message } it can return
SubmitOutcomes ==
    { [success |-> TRUE, message |-> MsgSubmitted],
      [success |-> FALSE, message |-> MsgAlready],
      [success |-> FALSE, message |-> MsgFailed500] }

\* ------------------------------------------------------------------- state
VARIABLES
    state,      \* engine.ts: the global EngineState
    timers,     \* the runtime's armed setInterval timers
    cyc,        \* the autopilot POST handlers in flight, by slot
    bidsFile,   \* data/bids.json: the BidRecords, newest first
    nextBidId,  \* stands for the fresh `bid-${Date.now()}-${random}` ids
    ext,        \* the bids-route request of an external client, in flight
    used,       \* how much of each bound the run has used
    policy,     \* which route version is deployed: "v5" or "v2"
    agentKeys,  \* the agents whose AGENT_KEYS entry is set
    reply,      \* the body of the last control response
    treasury,   \* the treasury module: oversightQueue, notifications, clock
    match       \* two calls of findBestAgent: argument and result

vars == <<state, timers, cyc, bidsFile, nextBidId, ext, used, policy, agentKeys, treasury, match, reply>>

CycleSlots == 1..MaxCycles

NullResult == [null |-> TRUE]

IdleCycle ==
    [pc |-> "idle", origin |-> "none", n |-> 0,
     minMatchScore |-> 0, maxBids |-> 0,
     ledgerRead |-> FALSE, attemptedJobIds |-> {}, jobs |-> <<>>,
     totalJobs |-> 0, allOpenJobs |-> 0, newJobs |-> 0,
     openJobs |-> <<>>, i |-> 0, submitCount |-> 0, results |-> <<>>,
     bids |-> <<>>, bidId |-> 0, res |-> NullResult, written |-> 0]

\* a control or bids-route response sent with NextResponse.json(body): the
\* body { success, message } and the default HTTP status 200; cycles is the
\* number a message template interpolates (0 when it has none)
Response(success, message, cycles) ==
    [success |-> success, message |-> message, cycles |-> cycles, status |-> 200]

\* NextResponse.json({ success: false, ... }, { status })
ErrorResponse(status, message) ==
    [success |-> FALSE, message |-> message, cycles |-> 0, status |-> status]

NoResponse == Response(TRUE, "", 0)

NoRequest == [kind |-> "none", phase |-> "idle", body |-> NullResult, bids |-> <<>>, bidId |-> 0]

\* ------------------------------------------------------------ bids route
Take(s, k) == SubSeq(s, 1, IF Len(s) < k THEN Len(s) ELSE k)

\* loadBids: the file's records, or [] when the read or the parse throws
loadBids(readOk) == IF readOk THEN bidsFile ELSE <<>>

\* GET: { bids: bids.slice(0, 50), stats }
bidsGET(bids) ==
    [bids  |-> Take(bids, ReadWindow),
     stats |-> [total   |-> Len(bids),
                pending |-> Cardinality({k \in 1..Len(bids) : bids[k].status = "pending"}),
                won     |-> Cardinality({k \in 1..Len(bids) : bids[k].status = "won"}),
                lost    |-> Cardinality({k \in 1..Len(bids) : bids[k].status = "lost"}),
                failed  |-> Cardinality({k \in 1..Len(bids) : bids[k].status = "failed"})]]

\* POST: bids.unshift({...bid, id}); if (bids.length > 100) bids.length = 100
bidsPOST(bids, bid, id) ==
    Take(<<[bid EXCEPT !.id = id]>> \o bids, RetainCap)

\* PATCH: bids.find(b => b.id === bidId); status and, if truthy, message
bidsFind(bids, bidId) ==
    IF \E k \in 1..Len(bids) : bids[k].id = bidId
    THEN CHOOSE k \in 1..Len(bids) :
            /\ bids[k].id = bidId
            /\ \A m \in 1..(k - 1) : bids[m].id # bidId
    ELSE 0

bidsPATCH(bids, bidId, status, message) ==
    LET k == bidsFind(bids, bidId)
    IN  IF k = 0 THEN bids
        ELSE [bids EXCEPT ![k] = [@ EXCEPT !.status = status,
                                           !.message = IF message # "" THEN message ELSE @]]

\* ------------------------------------------------------- autopilot route
\* POST, "Load existing bids": the job ids the cycle will skip.
\* v5 skips every job of the list; v2 only the pending and won ones.
attemptedJobIds(bids) ==
    IF policy = "v5"
    THEN {bids[k].jobId : k \in 1..Len(bids)}
    ELSE {bids[k].jobId : k \in {m \in 1..Len(bids) : bids[m].status \in {"pending", "won"}}}

\* saveToHistory: the status written for a SubmitResult
saveStatus(result) ==
    IF result.success THEN "pending"
    ELSE IF policy = "v5" /\ includes(toLowerCase(MessageText[result.message]), AlreadySubmittedText)
         THEN "submitted"
         ELSE "failed"

\* a body that carries an amount for accepted submissions only
historyBody_AmountOnSuccess(result) ==
    [id |-> 0, jobId |-> result.jobId, agent |-> result.agent,
     bidAmount |-> IF result.success THEN result.reward ELSE 0,
     status |-> saveStatus(result), message |-> result.message]

\* saveToHistory: the body POSTed to the bids route
historyBody(result) ==
    [id |-> 0, jobId |-> result.jobId, agent |-> result.agent,
     bidAmount |-> result.reward, status |-> saveStatus(result),
     message |-> result.message]

\* an insertion that puts a job before the jobs of equal reward
RECURSIVE insertByReward_Unstable(_, _)
insertByReward_Unstable(sorted, j) ==
    IF Len(sorted) = 0 THEN <<j>>
    ELSE IF Job[sorted[1]].reward > Job[j].reward
         THEN <<sorted[1]>> \o insertByReward_Unstable(Tail(sorted), j)
         ELSE <<j>> \o sorted

\* Array.prototype.sort((a, b) => (b.reward || 0) - (a.reward || 0)): stable
RECURSIVE insertByReward(_, _)
insertByReward(sorted, j) ==
    IF Len(sorted) = 0 THEN <<j>>
    ELSE IF Job[sorted[1]].reward >= Job[j].reward
         THEN <<sorted[1]>> \o insertByReward(Tail(sorted), j)
         ELSE <<j>> \o sorted

RECURSIVE sortByReward(_)
sortByReward(js) ==
    IF Len(js) = 0 THEN <<>>
    ELSE insertByReward(sortByReward(SubSeq(js, 1, Len(js) - 1)), js[Len(js)])

\* a filter that looks at the reward only
filterOpen_AnyStatus(jobs) == SelectSeq(jobs, LAMBDA j : Job[j].reward > 0)

\* jobs.filter(j => j.status === 'open' && j.reward > 0)
filterOpen(jobs) == SelectSeq(jobs, LAMBDA j : Job[j].status = "open" /\ Job[j].reward > 0)

\* allOpenJobs.filter(j => !attemptedJobIds.has(j.id))
filterNew(jobs, attempted) == SelectSeq(jobs, LAMBDA j : j \notin attempted)

\* skipsJob with the score test forgotten
skipsJob_NoScoreGate(c, j) ==
    BestAgentOf[j].agent \notin agentKeys

\* the loop's two `continue` tests
skipsJob(c, j) ==
    \/ BestAgentOf[j].score < c.minMatchScore
    \/ BestAgentOf[j].agent \notin agentKeys

\* capReached with > for >=
capReached_OffByOne(c) == c.submitCount > c.maxBids

\* the loop's `break` test
capReached(c) == c.submitCount >= c.maxBids

\* the index of the next job the loop submits to, from index k on; 0 if none
nextSubmit(c, k) ==
    IF \E m \in k..Len(c.openJobs) : ~skipsJob(c, c.openJobs[m])
    THEN CHOOSE m \in k..Len(c.openJobs) :
            /\ ~skipsJob(c, c.openJobs[m])
            /\ \A q \in k..(m - 1) : skipsJob(c, c.openJobs[q])
    ELSE 0

\* the NextResponse.json of a completed cycle
cycleSummary(c) ==
    [status |-> 200, success |-> TRUE,
     totalJobs |-> c.totalJobs, allOpenJobs |-> c.allOpenJobs,
     alreadySubmitted |-> Cardinality(c.attemptedJobIds),
     newJobsFound |-> c.newJobs, openJobs |-> Len(c.openJobs),
     submissionsAttempted |-> Len(c.results),
     submissionsSuccessful |-> c.submitCount,
     submissionsFailed |-> Len(SelectSeq(c.results, LAMBDA r : ~r.success)),
     results |-> c.results]

\* the NextResponse.json when the job fetch failed
fetchErrorSummary ==
    [status |-> 500, success |-> FALSE,
     totalJobs |-> 0, allOpenJobs |-> 0, alreadySubmitted |-> 0,
     newJobsFound |-> 0, openJobs |-> 0,
     submissionsAttempted |-> 0, submissionsSuccessful |-> 0, submissionsFailed |-> 0,
     results |-> <<>>]


\* ----------------------------------------------------------------- helpers
\* a logical clock standing for new Date(): grows with every request begun
Now == 1 + used.engine + used.manual + used.external

HasFreeSlot == \E h \in CycleSlots : cyc[h].pc = "idle"
FreeSlot == CHOOSE h \in CycleSlots :
                /\ cyc[h].pc = "idle"
                /\ \A g \in CycleSlots : cyc[g].pc = "idle" => h <= g

CanFail == used.faults < MaxFaults
Fault == [used EXCEPT !.faults = @ + 1]

\* the autopilot POST handler up to its first await: the body is read
beginHandler(origin, n, minMatchScore, maxBids, reachable) ==
    [IdleCycle EXCEPT !.pc = IF reachable THEN "loadBids" ELSE "unreachable",
                      !.origin = origin, !.n = n,
                      !.minMatchScore = minMatchScore, !.maxBids = maxBids]

\* ------------------------------------------------------------------ engine
\* runCycle up to its first await: cycleCount++ and the POST is sent
runCycle(st, reachable) ==
    /\ HasFreeSlot
    /\ used.engine < MaxEngineCycles
    /\ reachable \/ CanFail
    /\ cyc' = [cyc EXCEPT ![FreeSlot] =
                  beginHandler("engine", st.cycleCount + 1,
                               EngineMinMatchScore, EngineMaxBids, reachable)]
    /\ used' = [used EXCEPT !.engine = @ + 1,
                            !.faults = IF reachable THEN @ ELSE @ + 1]

\* startEngineBody without `state.cycleCount = 0`
startEngineBody_NoReset(st, reachable) ==
    /\ runCycle(st, reachable)
    /\ state' = [st EXCEPT !.isRunning = TRUE, !.startedAt = Now,
                           !.cycleCount = @ + 1, !.intervalId = Now]
    /\ timers' = timers \cup {Now}

\* startEngine, the engine stopped
startEngineBody(st, reachable) ==
    /\ runCycle([st EXCEPT !.cycleCount = 0], reachable)
    /\ state' = [st EXCEPT !.isRunning = TRUE, !.startedAt = Now,
                           !.cycleCount = 1, !.intervalId = Now]
    /\ timers' = timers \cup {Now}

StartEngine ==
    /\ ~state.isRunning
    /\ \E reachable \in BOOLEAN : startEngineBody(state, reachable)
    /\ reply' = Response(TRUE, "Engine started", 0)
    /\ UNCHANGED <<bidsFile, nextBidId, ext, policy, agentKeys, treasury, match>>

\* StartEngineAlready arming a timer all the same
StartEngineAlready_Rearms ==
    /\ state.isRunning
    /\ reply' = Response(TRUE, "Engine already running", 0)
    /\ timers' = timers \cup {Now + 1}
    /\ state' = [state EXCEPT !.intervalId = Now + 1]
    /\ UNCHANGED <<cyc, bidsFile, nextBidId, ext, used, policy, agentKeys, treasury, match>>

\* startEngine, the engine running
StartEngineAlready ==
    /\ state.isRunning
    /\ reply' = Response(TRUE, "Engine already running", 0)
    /\ UNCHANGED <<state, timers, cyc, bidsFile, nextBidId, ext, used, policy, agentKeys, treasury, match>>

\* the setInterval callback
TimerFire ==
    /\ timers # {}
    /\ \E reachable \in BOOLEAN : runCycle(state, reachable)
    /\ state' = [state EXCEPT !.cycleCount = @ + 1]
    /\ UNCHANGED <<timers, bidsFile, nextBidId, ext, policy, agentKeys, treasury, match, reply>>

\* StopEngine that cancels the timer but keeps its id in the state
StopEngine_KeepsId ==
    /\ state.isRunning
    /\ timers' = IF state.intervalId # 0 THEN timers \ {state.intervalId} ELSE timers
    /\ state' = [state EXCEPT !.isRunning = FALSE]
    /\ reply' = Response(TRUE, "Stopped after ${cycles} cycles", state.cycleCount)
    /\ UNCHANGED <<cyc, bidsFile, nextBidId, ext, used, policy, agentKeys, treasury, match>>

\* StopEngine without clearInterval
StopEngine_KeepsTimer ==
    /\ state.isRunning
    /\ timers' = timers
    /\ state' = [state EXCEPT !.isRunning = FALSE, !.intervalId = 0]
    /\ reply' = Response(TRUE, "Stopped after ${cycles} cycles", state.cycleCount)
    /\ UNCHANGED <<cyc, bidsFile, nextBidId, ext, used, policy, agentKeys, treasury, match>>

StopEngine ==
    /\ state.isRunning
    /\ timers' = IF state.intervalId # 0 THEN timers \ {state.intervalId} ELSE timers
    /\ state' = [state EXCEPT !.isRunning = FALSE, !.intervalId = 0]
    /\ reply' = Response(TRUE, "Stopped after ${cycles} cycles", state.cycleCount)
    /\ UNCHANGED <<cyc, bidsFile, nextBidId, ext, used, policy, agentKeys, treasury, match>>

StopEngineNotRunning ==
    /\ ~state.isRunning
    /\ reply' = Response(FALSE, "Engine not running", 0)
    /\ UNCHANGED <<state, timers, cyc, bidsFile, nextBidId, ext, used, policy, agentKeys, treasury, match>>

\* getEngineStatus, first call: auto-start
GetEngineStatus ==
    /\ ~state.initialized
    /\ IF state.isRunning
       THEN /\ state' = [state EXCEPT !.initialized = TRUE]
            /\ UNCHANGED <<timers, cyc, used>>
       ELSE \E reachable \in BOOLEAN :
                startEngineBody([state EXCEPT !.initialized = TRUE], reachable)
    /\ reply' = Response(TRUE, "status", 0)
    /\ UNCHANGED <<bidsFile, nextBidId, ext, policy, agentKeys, treasury, match>>

\* getEngineStatus, later calls: a read
GetEngineStatusAgain ==
    /\ state.initialized
    /\ reply' = Response(TRUE, "status", 0)
    /\ UNCHANGED <<state, timers, cyc, bidsFile, nextBidId, ext, used, policy, agentKeys, treasury, match>>

\* the values of body.action a control POST may carry; "undefined" stands
\* for a body without action or a body that is not JSON
ControlActions == {"start", "stop", "Start", "pause", "undefined"}

\* a control route whose last branch stops the engine before it answers
InvalidAction_Stops(action) ==
    /\ action \notin {"start", "stop"}
    /\ reply' = ErrorResponse(400, "Invalid action. Use \"start\" or \"stop\".")
    /\ timers' = {}
    /\ state' = [state EXCEPT !.isRunning = FALSE, !.intervalId = 0]
    /\ UNCHANGED <<cyc, bidsFile, nextBidId, ext, used, policy, agentKeys, treasury, match>>

\* control route, POST with an action that is neither start nor stop
InvalidAction(action) ==
    /\ action \notin {"start", "stop"}
    /\ reply' = ErrorResponse(400, "Invalid action. Use \"start\" or \"stop\".")
    /\ UNCHANGED <<state, timers, cyc, bidsFile, nextBidId, ext, used, policy, agentKeys, treasury, match>>

\* runCycle after its awaits: the response (or the thrown error) is stored;
\* message is data.message || '' (the route sends none) or the error's text
engineResult(c) ==
    IF c.pc = "unreachable"
    THEN [success |-> FALSE, totalJobs |-> 0, openJobs |-> 0, newJobsFound |-> 0,
          alreadySubmitted |-> 0, submissionsSuccessful |-> 0, submissionsFailed |-> 0,
          results |-> <<>>, message |-> "fetch failed", cycle |-> c.n]
    ELSE [success |-> c.res.success, totalJobs |-> c.res.totalJobs,
          openJobs |-> c.res.openJobs, newJobsFound |-> c.res.newJobsFound,
          alreadySubmitted |-> c.res.alreadySubmitted,
          submissionsSuccessful |-> c.res.submissionsSuccessful,
          submissionsFailed |-> c.res.submissionsFailed,
          results |-> c.res.results, message |-> "", cycle |-> c.n]

\* RunCycleEnd counting the cycle a second time when it ends
RunCycleEnd_Counts(h) ==
    /\ cyc[h].origin = "engine"
    /\ cyc[h].pc \in {"done", "unreachable"}
    /\ state' = [state EXCEPT !.lastResult = engineResult(cyc[h]),
                              !.cycleCount = @ + 1]
    /\ cyc' = [cyc EXCEPT ![h] = IdleCycle]
    /\ UNCHANGED <<timers, bidsFile, nextBidId, ext, used, policy, agentKeys, treasury, match, reply>>

\* RunCycleEnd with the engine giving up after a failed cycle
RunCycleEnd_StopsOnFailure(h) ==
    /\ cyc[h].origin = "engine"
    /\ cyc[h].pc \in {"done", "unreachable"}
    /\ state' = [state EXCEPT !.lastResult = engineResult(cyc[h]),
                              !.isRunning = @ /\ engineResult(cyc[h]).success]
    /\ cyc' = [cyc EXCEPT ![h] = IdleCycle]
    /\ UNCHANGED <<timers, bidsFile, nextBidId, ext, used, policy, agentKeys, treasury, match, reply>>

RunCycleEnd(h) ==
    /\ cyc[h].origin = "engine"
    /\ cyc[h].pc \in {"done", "unreachable"}
    /\ state' = [state EXCEPT !.lastResult = engineResult(cyc[h])]
    /\ cyc' = [cyc EXCEPT ![h] = IdleCycle]
    /\ UNCHANGED <<timers, bidsFile, nextBidId, ext, used, policy, agentKeys, treasury, match, reply>>

\* ---------------------------------------------------------- manual cycles
\* a client POSTs to the autopilot route itself
ManualCycle(minMatchScore, maxBids) ==
    /\ HasFreeSlot
    /\ used.manual < MaxManualCycles
    /\ cyc' = [cyc EXCEPT ![FreeSlot] =
                  beginHandler("manual", 0, minMatchScore, maxBids, TRUE)]
    /\ used' = [used EXCEPT !.manual = @ + 1]
    /\ UNCHANGED <<state, timers, bidsFile, nextBidId, ext, policy, agentKeys, treasury, match, reply>>

ManualEnd(h) ==
    /\ cyc[h].origin = "manual"
    /\ cyc[h].pc = "done"
    /\ cyc' = [cyc EXCEPT ![h] = IdleCycle]
    /\ UNCHANGED <<state, timers, bidsFile, nextBidId, ext, used, policy, agentKeys, treasury, match, reply>>

\* ------------------------------------------------- autopilot POST handler
cycFrame == <<state, timers, bidsFile, nextBidId, ext, policy, agentKeys, treasury, match, reply>>

\* "Load existing bids": GET on the bids route answered
LoadBids(h) ==
    /\ cyc[h].pc = "loadBids"
    /\ cyc' = [cyc EXCEPT ![h].pc = "fetchJobs",
                          ![h].ledgerRead = TRUE,
                          ![h].attemptedJobIds = attemptedJobIds(bidsGET(loadBids(TRUE)).bids)]
    /\ UNCHANGED used
    /\ UNCHANGED cycFrame

\* the GET throws or is not ok: the cycle continues with an empty set
LoadBidsFail(h) ==
    /\ cyc[h].pc = "loadBids"
    /\ CanFail
    /\ cyc' = [cyc EXCEPT ![h].pc = "fetchJobs", ![h].attemptedJobIds = {}]
    /\ used' = Fault
    /\ UNCHANGED cycFrame

\* "Fetch jobs" answered; filter, sort
FetchJobs(h, jobs) ==
    /\ cyc[h].pc = "fetchJobs"
    /\ LET allOpenJobs == filterOpen(jobs)
           newJobs == filterNew(allOpenJobs, cyc[h].attemptedJobIds)
       IN  cyc' = [cyc EXCEPT ![h].pc = "loop",
                              ![h].jobs = jobs,
                              ![h].totalJobs = Len(jobs),
                              ![h].allOpenJobs = Len(allOpenJobs),
                              ![h].newJobs = Len(newJobs),
                              ![h].openJobs = sortByReward(newJobs),
                              ![h].i = 1]
    /\ UNCHANGED used
    /\ UNCHANGED cycFrame

\* the fetch throws or is not ok: 500, "Failed to fetch jobs"
FetchJobsFail(h) ==
    /\ cyc[h].pc = "fetchJobs"
    /\ CanFail
    /\ cyc' = [cyc EXCEPT ![h].pc = "done", ![h].res = fetchErrorSummary]
    /\ used' = Fault
    /\ UNCHANGED cycFrame

\* the loop runs to its next submitToJob: the submit request is sent
SubmitCall(h) ==
    /\ cyc[h].pc = "loop"
    /\ ~capReached(cyc[h])
    /\ nextSubmit(cyc[h], cyc[h].i) # 0
    /\ cyc' = [cyc EXCEPT ![h].pc = "submitting", ![h].i = nextSubmit(cyc[h], cyc[h].i)]
    /\ UNCHANGED used
    /\ UNCHANGED cycFrame

\* submitToJob returns; results.push; saveToHistory sends its POST
SubmitReturn(h, outcome) ==
    /\ cyc[h].pc = "submitting"
    /\ LET j == cyc[h].openJobs[cyc[h].i]
           submitResult == [jobId |-> j,
                            agent |-> AGENT_NAMES[BestAgentOf[j].agent],
                            reward |-> Job[j].reward,
                            success |-> outcome.success,
                            message |-> outcome.message]
       IN  cyc' = [cyc EXCEPT ![h].pc = "saveLoad",
                              ![h].results = Append(@, submitResult)]
    /\ UNCHANGED used
    /\ UNCHANGED cycFrame

\* afterSave counting every submission, accepted or not
afterSave_CountsAll(c) ==
    [c EXCEPT !.pc = "loop", !.submitCount = @ + 1,
              !.i = @ + 1, !.bids = <<>>, !.bidId = 0]

\* what follows saveToHistory: submitCount, then the delay
afterSave(c) ==
    [c EXCEPT !.pc = "loop",
              !.submitCount = IF c.results[Len(c.results)].success THEN @ + 1 ELSE @,
              !.i = @ + 1, !.bids = <<>>, !.bidId = 0]

\* bids route POST for saveToHistory: loadBids, unshift, truncate
SaveLoad(h, readOk) ==
    /\ cyc[h].pc = "saveLoad"
    /\ readOk \/ CanFail
    /\ cyc' = [cyc EXCEPT ![h].pc = "saveWrite",
                          ![h].bidId = nextBidId,
                          ![h].bids = bidsPOST(loadBids(readOk),
                                               historyBody(cyc[h].results[Len(cyc[h].results)]),
                                               nextBidId)]
    /\ nextBidId' = nextBidId + 1
    /\ used' = IF readOk THEN used ELSE Fault
    /\ UNCHANGED <<state, timers, bidsFile, ext, policy, agentKeys, treasury, match, reply>>

\* bids route POST for saveToHistory: saveBids; the cycle goes on
SaveWrite(h) ==
    /\ cyc[h].pc = "saveWrite"
    /\ bidsFile' = cyc[h].bids
    /\ cyc' = [cyc EXCEPT ![h] = [afterSave(@) EXCEPT !.written = @ + 1]]
    /\ UNCHANGED used
    /\ UNCHANGED <<state, timers, nextBidId, ext, policy, agentKeys, treasury, match, reply>>

\* saveBids throws (a 500 nobody reads): the cycle goes on
SaveWriteFail(h) ==
    /\ cyc[h].pc = "saveWrite"
    /\ CanFail
    /\ cyc' = [cyc EXCEPT ![h] = afterSave(@)]
    /\ used' = Fault
    /\ UNCHANGED cycFrame

\* a cycle that goes back to the same job when the record could not be sent
SaveLost_Retries(h) ==
    /\ cyc[h].pc = "saveLoad"
    /\ CanFail
    /\ cyc' = [cyc EXCEPT ![h].pc = "loop"]
    /\ used' = Fault
    /\ UNCHANGED cycFrame

\* saveToHistory's fetch throws: catch { /* Ignore */ }
SaveLost(h) ==
    /\ cyc[h].pc = "saveLoad"
    /\ CanFail
    /\ cyc' = [cyc EXCEPT ![h] = afterSave(@)]
    /\ used' = Fault
    /\ UNCHANGED cycFrame

\* the loop ends (break, or no job left): the summary is returned
Finish(h) ==
    /\ cyc[h].pc = "loop"
    /\ capReached(cyc[h]) \/ nextSubmit(cyc[h], cyc[h].i) = 0
    /\ cyc' = [cyc EXCEPT ![h].pc = "done", ![h].res = cycleSummary(cyc[h])]
    /\ UNCHANGED used
    /\ UNCHANGED cycFrame


\* ------------------------------------------- external bids-route clients
\* what a client other than the cycle may send to the bids route
ExternalBids ==
    { [id |-> 0, jobId |-> "j1", agent |-> "NEXUS", bidAmount |-> 500,
       status |-> "pending", message |-> "manual"] }
ExternalStatuses == {"won", "failed"}
ExternalMessages == {"", "updated"}

extFrame == <<state, timers, cyc, policy, agentKeys, treasury, match, reply>>

\* POST: loadBids, unshift, truncate
ExtPostLoad(bid, readOk) ==
    /\ ext.kind = "none"
    /\ used.external < MaxExternal
    /\ readOk \/ CanFail
    /\ ext' = [kind |-> "POST", phase |-> "loaded", body |-> bid,
               bids |-> bidsPOST(loadBids(readOk), bid, nextBidId), bidId |-> nextBidId]
    /\ nextBidId' = nextBidId + 1
    /\ used' = [used EXCEPT !.external = @ + 1,
                            !.faults = IF readOk THEN @ ELSE @ + 1]
    /\ UNCHANGED bidsFile
    /\ UNCHANGED extFrame

\* PATCH: loadBids, find; 404 when the bid is not there
ExtPatchLoad(bidId, status, message) ==
    /\ ext.kind = "none"
    /\ used.external < MaxExternal
    /\ ext' = IF bidsFind(loadBids(TRUE), bidId) = 0
              THEN NoRequest
              ELSE [kind |-> "PATCH", phase |-> "loaded",
                    body |-> [bidId |-> bidId, status |-> status, message |-> message],
                    bids |-> bidsPATCH(loadBids(TRUE), bidId, status, message),
                    bidId |-> bidId]
    /\ reply' = IF bidsFind(loadBids(TRUE), bidId) = 0
                THEN ErrorResponse(404, "Bid not found")
                ELSE reply
    /\ used' = [used EXCEPT !.external = @ + 1]
    /\ UNCHANGED <<bidsFile, nextBidId>>
    /\ UNCHANGED <<state, timers, cyc, policy, agentKeys, treasury, match>>

\* saveBids of the POST or PATCH in flight
ExtSave ==
    /\ ext.phase = "loaded"
    /\ bidsFile' = ext.bids
    /\ ext' = NoRequest
    /\ UNCHANGED <<nextBidId, used>>
    /\ UNCHANGED extFrame

\* saveBids throws: the request ends with a 500
ExtSaveFail ==
    /\ ext.phase = "loaded"
    /\ CanFail
    /\ ext' = NoRequest
    /\ used' = Fault
    /\ UNCHANGED <<bidsFile, nextBidId>>
    /\ UNCHANGED extFrame

\* ------------------------------------------------------- matching, called
\* jobs findBestAgent may be called with, and two of the catalogue: j1,
\* which clients record bids for, and j2, which matches no skill
MatchJobs ==
    { \* one BACKEND skill, twice, in two cases
      [id |-> "m1",
           title |-> <<"A", "P", "I", " ", "a", "p", "i">>,
           description |-> << >>,
           tags |-> <<  >>,
           reward |-> 100, status |-> "open"],
      \* two PM skills, in the tags only
      [id |-> "m4",
           title |-> << >>,
           description |-> << >>,
           tags |-> << <<"r", "e", "s", "e", "a", "r", "c", "h">>, <<"r", "e", "p", "o", "r", "t">> >>,
           reward |-> 100, status |-> "open"],
      \* "data" and "database" (BACKEND) and "base" (CONTRACT) in one word
      [id |-> "m5",
           title |-> <<"D", "a", "t", "a", "b", "a", "s", "e">>,
           description |-> << >>,
           tags |-> <<  >>,
           reward |-> 100, status |-> "open"],
      \* "script" (BACKEND) inside "typescript" (FRONTEND): a tie
      [id |-> "m6",
           title |-> <<"t", "y", "p", "e", "s", "c", "r", "i", "p", "t">>,
           description |-> << >>,
           tags |-> <<  >>,
           reward |-> 100, status |-> "open"],
      \* two CONTRACT skills against one FRONTEND skill
      [id |-> "m7",
           title |-> <<"N", "F", "T", " ", "w", "a", "l", "l", "e", "t">>,
           description |-> <<"r", "e", "a", "c", "t">>,
           tags |-> <<  >>,
           reward |-> 100, status |-> "open"],
      \* a PM skill and a FRONTEND skill: a tie the default agent is part of
      [id |-> "m8",
           title |-> <<"f", "i", "n", "d", " ", "u", "i">>,
           description |-> << >>,
           tags |-> <<  >>,
           reward |-> 100, status |-> "open"] }
      \cup {Job["j1"], Job["j2"]}

\* findBestAgent, the value of `score` at the end of each agent's turn
scoresOf(job) ==
    [agent \in DOMAIN AGENTS |-> skillScore(combinedText(job), AGENTS[agent])]

NoCall ==
    [job |-> NullResult, scores |-> [agent \in DOMAIN AGENTS |-> 0],
     best |-> [agent |-> "", score |-> 0], ledgerSize |-> 0]

InitialMatch == [prev |-> NoCall, last |-> NoCall]

\* findBestAgent applied to every job it may be called with, computed once
MatchOf ==
    [job \in MatchJobs |->
        [job |-> job, scores |-> scoresOf(job), best |-> findBestAgent(job)]]

\* a findBestAgent whose answer looks at the ledger: a job that has a record
\* is given to the default agent
FindBestAgentCall_LedgerAware(job, keep) ==
    /\ match' = [prev |-> IF keep THEN match.prev ELSE match.last,
                 last |-> [job |-> job, scores |-> MatchOf[job].scores,
                           best |-> IF \E k \in 1..Len(bidsFile) :
                                           bidsFile[k].jobId = job.id
                                    THEN [agent |-> "PM", score |-> 0]
                                    ELSE MatchOf[job].best,
                           ledgerSize |-> Len(bidsFile)]]
    /\ UNCHANGED <<state, timers, cyc, bidsFile, nextBidId, ext, used, policy, agentKeys, treasury, reply>>

\* a caller (the cycle, the dashboard) calls findBestAgent(job); match.last
\* is this call with the number of ledger records at its time, match.prev
\* an earlier call (keep) or the one before this one
FindBestAgentCall(job, keep) ==
    /\ match' = [prev |-> IF keep THEN match.prev ELSE match.last,
                 last |-> [job |-> job, scores |-> MatchOf[job].scores,
                           best |-> MatchOf[job].best,
                           ledgerSize |-> Len(bidsFile)]]
    /\ UNCHANGED <<state, timers, cyc, bidsFile, nextBidId, ext, used, policy, agentKeys, treasury, reply>>

\* ---------------------------------------------------------------- treasury
\* a JavaScript number that is a quotient of two non-negative integers:
\* a ratio, Infinity (x / 0, x > 0) or NaN (0 / 0)
Quotient(kind, num, den) == [kind |-> kind, num |-> num, den |-> den]

\* Number(a) / Number(b); both conversions are exact for the amounts used here
divide(a, b) ==
    IF b # 0 THEN Quotient("ratio", a, b)
    ELSE IF a = 0 THEN Quotient("NaN", 0, 0)
    ELSE Quotient("Infinity", 0, 0)

\* q > humanOversightThreshold: false for NaN, as every comparison with NaN
exceedsThreshold(q) ==
    CASE q.kind = "NaN" -> FALSE
      [] q.kind = "Infinity" -> TRUE
      [] OTHER -> q.num * ThresholdDen > ThresholdNum * q.den

\* the amounts (bigint) and balances the wallet may hold
SpendAmounts == {0, 4, 5, 6}
Balances == {0, 100}

InitialTreasury ==
    [oversightQueue |-> <<>>, recentTransactions |-> <<>>, notifications |-> <<>>,
     now |-> 0, spends |-> 0, outcome |-> [call |-> "none"]]

treasuryFrame == <<state, timers, cyc, bidsFile, nextBidId, ext, used, policy, agentKeys, match, reply>>

\* createOversightRequest; the fresh id stands for oversight_${Date.now()}_${random}
createOversightRequest(amount, treasuryPercentage) ==
    [id |-> Len(treasury.oversightQueue) + 1, amount |-> amount,
     treasuryPercentage |-> treasuryPercentage, createdAt |-> treasury.now,
     status |-> "PENDING", approvedBy |-> ""]

\* processSpend once the balance is read: the SpendResult
processSpend(amount, balance) ==
    IF exceedsThreshold(divide(amount, balance))
    THEN [success |-> FALSE, requiresOversight |-> TRUE]
    ELSE [success |-> TRUE, requiresOversight |-> FALSE]

\* TreasuryAgent.spend over TreasuryManager.processSpend, the balance read
Spend(amount, balance) ==
    /\ treasury.spends < MaxSpends
    /\ LET q == divide(amount, balance)
           result == processSpend(amount, balance)
       IN  treasury' =
             [treasury EXCEPT
                !.spends = @ + 1,
                !.oversightQueue =
                    IF exceedsThreshold(q)
                    THEN Append(@, createOversightRequest(amount, q))
                    ELSE @,
                !.recentTransactions = Append(@, result),
                !.outcome = [call |-> "spend", balanceRead |-> TRUE, thrown |-> FALSE,
                             amount |-> amount, balance |-> balance, result |-> result]]
    /\ UNCHANGED treasuryFrame

\* getTreasuryBalance rejects: processSpend and spend reject with it
SpendBalanceUnavailable(amount) ==
    /\ treasury.spends < MaxSpends
    /\ treasury' = [treasury EXCEPT
                       !.spends = @ + 1,
                       !.outcome = [call |-> "spend", balanceRead |-> FALSE, thrown |-> TRUE,
                                    amount |-> amount, balance |-> 0, result |-> NullResult]]
    /\ UNCHANGED treasuryFrame

\* oversightQueue.get(id): the index of the request, 0 when there is none
findRequest(id) == IF id \in 1..Len(treasury.oversightQueue) THEN id ELSE 0

\* getPendingOversight
getPendingOversight ==
    SelectSeq(treasury.oversightQueue, LAMBDA r : r.status = "PENDING")

\* decideOversight without the `request.status !== 'PENDING'` test
decideOversight_AnyStatus(call, status, id) ==
    LET k == findRequest(id)
        ok == k # 0
    IN  /\ treasury' =
              [treasury EXCEPT
                 !.oversightQueue =
                     IF ok THEN [@ EXCEPT ![k] = [@ EXCEPT !.status = status,
                                                          !.approvedBy = "pilot"]]
                     ELSE @,
                 !.outcome = [call |-> call, id |-> id, returned |-> ok]]
        /\ UNCHANGED treasuryFrame

\* approveOversight / rejectOversight: status is the one the call sets
decideOversight(call, status, id) ==
    LET k == findRequest(id)
        ok == k # 0 /\ treasury.oversightQueue[k].status = "PENDING"
    IN  /\ treasury' =
              [treasury EXCEPT
                 !.oversightQueue =
                     IF ok THEN [@ EXCEPT ![k] = [@ EXCEPT !.status = status,
                                                          !.approvedBy = "pilot"]]
                     ELSE @,
                 !.outcome = [call |-> call, id |-> id, returned |-> ok]]
        /\ UNCHANGED treasuryFrame

ApproveOversight(id) == decideOversight("approveOversight", "APPROVED", id)

RejectOversight(id) == decideOversight("rejectOversight", "REJECTED", id)

\* time passes: a quarter of the expiration period
quarter == expirationMinutes \div 4

Tick ==
    /\ treasury.now < MaxTicks * quarter
    /\ treasury' = [treasury EXCEPT !.now = @ + quarter]
    /\ UNCHANGED treasuryFrame

\* checkExpirations: the notifications it pushes for the pending requests
RECURSIVE expiringNotes(_)
expiringNotes(pending) ==
    IF Len(pending) = 0 THEN <<>>
    ELSE LET request == pending[1]
             remaining == expirationMinutes - (treasury.now - request.createdAt)
             note(level) == <<[requestId |-> request.id, type |-> "EXPIRING", level |-> level]>>
         IN  (IF 4 * remaining < expirationMinutes THEN note("CRITICAL")
              ELSE IF 2 * remaining < expirationMinutes THEN note("WARNING")
              ELSE <<>>)
             \o expiringNotes(Tail(pending))

\* checkExpirations(getPendingOversight())
CheckExpirations ==
    /\ Len(treasury.notifications) + Len(expiringNotes(getPendingOversight)) <= MaxNotifications
    /\ expiringNotes(getPendingOversight) # <<>>
    /\ treasury' = [treasury EXCEPT
                       !.notifications = @ \o expiringNotes(getPendingOversight),
                       !.outcome = [call |-> "checkExpirations"]]
    /\ UNCHANGED treasuryFrame

\* ----------------------------------------------------------- specification
AllAgents == {"BACKEND", "CONTRACT", "FRONTEND", "PM"}

\* engine.ts: const state = { isRunning: false, intervalId: null, ... }
InitialEngineState ==
    [isRunning |-> FALSE, intervalId |-> 0, cycleCount |-> 0,
     lastResult |-> NullResult, startedAt |-> 0, initialized |-> FALSE]

\* a ledger file left by earlier runs: j1 was submitted and is pending; j2
\* and j4 (open at the time) were tried later and failed
PersistedLedger ==
    << [id |-> 3, jobId |-> "j4", agent |-> "FORGE", bidAmount |-> 200,
        status |-> "failed", message |-> MsgFailed500],
       [id |-> 2, jobId |-> "j2", agent |-> "CORTEX", bidAmount |-> 300,
        status |-> "failed", message |-> MsgFailed500],
       [id |-> 1, jobId |-> "j1", agent |-> "NEXUS", bidAmount |-> 500,
        status |-> "pending", message |-> MsgSubmitted] >>

\* what a deployment fixes: the route version and the AGENT_KEYS that are set
Deployments ==
    { [policy |-> "v5", agentKeys |-> AllAgents],
      [policy |-> "v2", agentKeys |-> AllAgents],
      [policy |-> "v5", agentKeys |-> AllAgents \ {"CONTRACT"}] }

\* the process starts: the engine state is fresh, the ledger file is ledger
InitWith(ledger, deployment) ==
    /\ state = InitialEngineState
    /\ timers = {}
    /\ cyc = [h \in CycleSlots |-> IdleCycle]
    /\ bidsFile = ledger
    /\ nextBidId = Len(ledger) + 1
    /\ ext = NoRequest
    /\ used = [engine |-> 0, manual |-> 0, external |-> 0, faults |-> 0]
    /\ policy = deployment.policy
    /\ agentKeys = deployment.agentKeys
    /\ reply = NoResponse
    /\ treasury = InitialTreasury
    /\ match = InitialMatch

\* first start of the v5 route with every key set: no ledger file yet
Init == InitWith(<<>>, [policy |-> "v5", agentKeys |-> AllAgents])

\* a start, or a restart over a persisted ledger, of any deployment
InitRestart ==
    \E ledger \in {<<>>, PersistedLedger}, deployment \in Deployments :
        InitWith(ledger, deployment)

\* the bodies a manual POST may carry: { minMatchScore, maxBids }
ManualParams ==
    { [minMatchScore |-> DefaultMinMatchScore, maxBids |-> 1],
      [minMatchScore |-> 15, maxBids |-> DefaultMaxBids] }

\* the cycle handler's steps when every call it makes is answered
HandlerStep ==
    \/ \E h \in CycleSlots : LoadBids(h)
    \/ \E h \in CycleSlots, jobs \in Feeds : FetchJobs(h, jobs)
    \/ \E h \in CycleSlots : SubmitCall(h)
    \/ \E h \in CycleSlots, o \in SubmitOutcomes : SubmitReturn(h, o)
    \/ \E h \in CycleSlots : SaveLoad(h, TRUE)
    \/ \E h \in CycleSlots : SaveWrite(h)
    \/ \E h \in CycleSlots : Finish(h)

\* the cycle handler's steps when a call to the bids route fails
LedgerFault ==
    \/ \E h \in CycleSlots : LoadBidsFail(h)
    \/ \E h \in CycleSlots : SaveLoad(h, FALSE)
    \/ \E h \in CycleSlots : SaveWriteFail(h)
    \/ \E h \in CycleSlots : SaveLost(h)

ManualStep ==
    \/ \E p \in ManualParams : ManualCycle(p.minMatchScore, p.maxBids)
    \/ \E h \in CycleSlots : ManualEnd(h)

EngineStep ==
    \/ StartEngine
    \/ TimerFire
    \/ StopEngine
    \/ GetEngineStatus
    \/ \E h \in CycleSlots : RunCycleEnd(h)

ControlNoOp ==
    \/ StartEngineAlready
    \/ StopEngineNotRunning
    \/ GetEngineStatusAgain
    \/ \E action \in ControlActions : InvalidAction(action)

ExternalStep ==
    \/ \E bid \in ExternalBids : ExtPostLoad(bid, TRUE)
    \/ \E k \in 0..(nextBidId - 1), s \in ExternalStatuses, m \in ExternalMessages :
           ExtPatchLoad(k, s, m)
    \/ ExtSave

ExternalFault ==
    \/ \E bid \in ExternalBids : ExtPostLoad(bid, FALSE)
    \/ ExtSaveFail

\* the whole system
Next ==
    \/ EngineStep
    \/ ControlNoOp
    \/ ManualStep
    \/ HandlerStep
    \/ \E h \in CycleSlots : FetchJobsFail(h)
    \/ LedgerFault
    \/ ExternalStep
    \/ ExternalFault

Spec == InitRestart /\ [][Next]_vars

\* cycles triggered by manual POSTs, every failure of the environment allowed
NextCycle ==
    \/ ManualStep
    \/ HandlerStep
    \/ \E h \in CycleSlots : FetchJobsFail(h)
    \/ LedgerFault

SpecCycle == InitRestart /\ [][NextCycle]_vars

\* the engine and its cycles on a fresh deployment
NextEngine ==
    \/ EngineStep
    \/ HandlerStep
    \/ \E h \in CycleSlots : FetchJobsFail(h)

SpecEngine == Init /\ [][NextEngine]_vars

\* a manual cycle and an external client of the bids route, every read and
\* write of the file succeeding
NextLedger ==
    \/ ManualStep
    \/ HandlerStep
    \/ ExternalStep

SpecLedger == Init /\ [][NextLedger]_vars

\* the treasury guard, the Human Pilot and the passing of time
RequestIds == 1..MaxSpends

NextTreasury ==
    \/ \E amount \in SpendAmounts, balance \in Balances : Spend(amount, balance)
    \/ \E amount \in SpendAmounts : SpendBalanceUnavailable(amount)
    \/ \E id \in RequestIds : ApproveOversight(id)
    \/ \E id \in RequestIds : RejectOversight(id)
    \/ Tick
    \/ CheckExpirations

SpecTreasury == Init /\ [][NextTreasury]_vars

\* findBestAgent called again and again while clients change the ledger
NextMatch ==
    \/ \E job \in MatchJobs, keep \in BOOLEAN : FindBestAgentCall(job, keep)
    \/ ExternalStep

SpecMatch == Init /\ [][NextMatch]_vars

\* the cycle handler's steps in a quiet environment: the feed offers one job,
\* every submit is accepted and every call to the bids route is answered
QuietStep ==
    \/ \E h \in CycleSlots : LoadBids(h)
    \/ \E h \in CycleSlots : FetchJobs(h, <<"j1">>)
    \/ \E h \in CycleSlots : SubmitCall(h)
    \/ \E h \in CycleSlots : SubmitReturn(h, [success |-> TRUE, message |-> MsgSubmitted])
    \/ \E h \in CycleSlots : SaveLoad(h, TRUE)
    \/ \E h \in CycleSlots : SaveWrite(h)
    \/ \E h \in CycleSlots : Finish(h)

\* the control API and the engine over a quiet environment whose job fetch
\* can fail
NextControl ==
    \/ EngineStep
    \/ ControlNoOp
    \/ QuietStep
    \/ \E h \in CycleSlots : FetchJobsFail(h)

\* setInterval keeps calling back while its timer is armed, every request in
\* flight is eventually answered, and runCycle resumes after its await
Fairness ==
    /\ WF_vars(TimerFire)
    /\ WF_vars(QuietStep)
    /\ WF_vars(\E h \in CycleSlots : RunCycleEnd(h))

SpecControl == Init /\ [][NextControl]_vars

\* the engine, its timer and its cycles over the same environment
NextTimer ==
    \/ EngineStep
    \/ QuietStep
    \/ \E h \in CycleSlots : FetchJobsFail(h)

SpecTimer == Init /\ [][NextTimer]_vars /\ Fairness

\* the engine started and stopped while the bids route can fail its cycles
NextStop ==
    \/ EngineStep
    \/ QuietStep
    \/ LedgerFault

SpecStop == Init /\ [][NextStop]_vars /\ Fairness

\* the process restarted: the module-level EngineState is fresh, the ledger
\* file is the one the earlier run left
InitAfterRestart == \E deployment \in Deployments : InitWith(PersistedLedger, deployment)

SpecRestart == InitAfterRestart /\ [][NextTimer]_vars


\* every step of the cycle in slot h: each call it waits for returns or
\* fails, and the caller takes the answer
CycleStep(h) ==
    \/ LoadBids(h) \/ LoadBidsFail(h)
    \/ \E jobs \in Feeds : FetchJobs(h, jobs)
    \/ FetchJobsFail(h)
    \/ SubmitCall(h)
    \/ \E o \in SubmitOutcomes : SubmitReturn(h, o)
    \/ SaveLoad(h, TRUE) \/ SaveLoad(h, FALSE) \/ SaveLost(h)
    \/ SaveWrite(h) \/ SaveWriteFail(h)
    \/ Finish(h)
    \/ RunCycleEnd(h)

\* the engine started, and the cycle the start runs, whose calls can fail
NextTerminate ==
    \/ StartEngine
    \/ \E h \in CycleSlots : CycleStep(h)

\* a call some cycle waits for eventually returns or fails
CallsReturn == WF_vars(\E h \in CycleSlots : CycleStep(h))

SpecTerminate == Init /\ [][NextTerminate]_vars /\ CallsReturn

\* ================================================================== claims
InFlight == {h \in CycleSlots : cyc[h].pc # "idle"}

\* the job ids of a sequence of results or of BidRecords
JobsOf(rs) == {rs[k].jobId : k \in 1..Len(rs)}

\* the ledger holds a pending or won record for job j
hasActiveBid(bids, j) ==
    \E k \in 1..Len(bids) : bids[k].jobId = j /\ bids[k].status \in {"pending", "won"}

\* the job a handler's submit call in flight is for
submittingJob(c) == c.openJobs[c.i]

\* ---- C1
\* C1: a job with a pending or won record in the ledger is never returned by
\* a cycle's candidate selection and never gets a submit call.
C1_Idempotency ==
    [][\A h \in CycleSlots :
        /\ (cyc[h].pc = "fetchJobs" /\ cyc'[h].pc = "loop")
              => \A k \in 1..Len(cyc'[h].openJobs) :
                    ~hasActiveBid(bidsFile, cyc'[h].openJobs[k])
        /\ (cyc[h].pc = "loop" /\ cyc'[h].pc = "submitting")
              => ~hasActiveBid(bidsFile, submittingJob(cyc'[h]))]_vars

\* ---- C2
\* C2: at most one cycle begun by the engine (start or timer) is executing.
C2_OneEngineCycle ==
    Cardinality({h \in InFlight : cyc[h].origin = "engine"}) <= 1

\* ---- C3
\* C3: cycles in flight together never make submit calls for the same job:
\* a trigger arriving during a cycle adds no submit call and no ledger write.
attemptsOf(c) ==
    JobsOf(c.results) \cup (IF c.pc = "submitting" THEN {submittingJob(c)} ELSE {})

C3_NoOverlappingSubmits ==
    \A g \in InFlight, h \in InFlight :
        g # h => attemptsOf(cyc[g]) \cap attemptsOf(cyc[h]) = {}

\* ---- C4
\* C4: every job has at most one pending or won record in the ledger.
activeBids(bids, j) ==
    {k \in 1..Len(bids) : bids[k].jobId = j /\ bids[k].status \in {"pending", "won"}}

C4_OneActiveBidPerJob ==
    \A j \in JobIds : Cardinality(activeBids(bidsFile, j)) <= 1

\* ---- C5
\* C5: no effect of a bids-route request is lost to an interleaved one: while
\* fewer records than the cap were ever added, the record of every POST that
\* has completed is in the file.
idsInFlight ==
    {cyc[h].bidId : h \in {g \in CycleSlots : cyc[g].pc = "saveWrite"}}
    \cup (IF ext.kind = "POST" THEN {ext.bidId} ELSE {})

C5_NoLostRecord ==
    nextBidId - 1 <= RetainCap =>
        \A id \in 1..(nextBidId - 1) :
            id \in idsInFlight \/ \E k \in 1..Len(bidsFile) : bidsFile[k].id = id

\* ---- C6
\* C6: a finished cycle has added as many ledger records as it made submit
\* attempts.
C6_OneRecordPerAttempt ==
    \A h \in CycleSlots :
        cyc[h].pc = "done" => cyc[h].written = Len(cyc[h].results)

\* ---- C7
\* C7: a cycle never ends reporting success while a job it submitted to has
\* no record in the ledger.
C7_NoSilentLedgerLoss ==
    \A h \in CycleSlots :
        (cyc[h].pc = "done" /\ cyc[h].res.success)
            => JobsOf(cyc[h].results) \subseteq JobsOf(bidsFile)

successesOf(c) == Len(SelectSeq(c.results, LAMBDA r : r.success))

C9_ThresholdGate ==
    \A h \in InFlight :
        /\ \A j \in attemptsOf(cyc[h]) : BestAgentOf[j].score >= cyc[h].minMatchScore
        /\ (cyc[h].pc = "done" /\ cyc[h].res.success /\ cyc[h].submitCount < cyc[h].maxBids)
              => \A k \in 1..Len(cyc[h].openJobs) :
                    LET j == cyc[h].openJobs[k]
                    IN  (BestAgentOf[j].score >= cyc[h].minMatchScore
                         /\ BestAgentOf[j].agent \in agentKeys)
                            => j \in JobsOf(cyc[h].results)

\* a finished cycle that skipped a low-scoring candidate and submitted to a
\* later one
C9_Witness ==
    \E h \in CycleSlots :
        /\ cyc[h].pc = "done"
        /\ \E a \in 1..Len(cyc[h].openJobs), b \in 1..Len(cyc[h].openJobs) :
              /\ a < b
              /\ BestAgentOf[cyc[h].openJobs[a]].score < cyc[h].minMatchScore
              /\ BestAgentOf[cyc[h].openJobs[a]].score > 0
              /\ cyc[h].openJobs[b] \in JobsOf(cyc[h].results)

\* ---- C10
\* C10: once a failed submit has been through saveToHistory, the ledger holds
\* a record of that job with status failed and the upstream message; the
\* summary counts every failed attempt.
lastResultOf(c) == c.results[Len(c.results)]

C10_SubmitFailedRecorded ==
    \A h \in CycleSlots :
        /\ (cyc[h].pc \in {"loop", "done"} /\ Len(cyc[h].results) > 0
            /\ ~lastResultOf(cyc[h]).success)
              => \E k \in 1..Len(bidsFile) :
                    /\ bidsFile[k].jobId = lastResultOf(cyc[h]).jobId
                    /\ bidsFile[k].status = "failed"
                    /\ bidsFile[k].message = lastResultOf(cyc[h]).message
        /\ (cyc[h].pc = "done" /\ cyc[h].res.success)
              => cyc[h].res.submissionsFailed
                    = Len(cyc[h].results) - successesOf(cyc[h])

\* ---- C11
\* C11: a cycle whose job fetch fails makes no submit call and no ledger
\* write; when it ends the engine stores a well-formed summary with success
\* false as lastResult, stays running with its timer armed, and the timer
\* starts the next cycle.
fetchFailed(c) == c.pc = "done" /\ c.res.status = 500

WellFormedResult(r) ==
    /\ r # NullResult
    /\ r.success \in BOOLEAN
    /\ \A f \in {"totalJobs", "openJobs", "newJobsFound", "alreadySubmitted",
                  "submissionsSuccessful", "submissionsFailed"} : r[f] \in Nat
    /\ r.message \in STRING
    /\ r.results \in Seq([jobId : JobIds, agent : STRING, reward : Nat,
                          success : BOOLEAN, message : STRING])

C11_FailedCycleSilent ==
    \A h \in CycleSlots :
        fetchFailed(cyc[h]) =>
            /\ cyc[h].results = <<>>
            /\ cyc[h].written = 0
            /\ cyc[h].i = 0

C11_FailedCycleStored ==
    \A h \in CycleSlots :
        (fetchFailed(cyc[h]) /\ cyc[h].origin = "engine" /\ cyc'[h].pc = "idle")
            => /\ WellFormedResult(state'.lastResult)
               /\ ~state'.lastResult.success
               /\ state'.lastResult.submissionsSuccessful = 0
               /\ state'.isRunning = state.isRunning
               /\ timers' = timers
               /\ bidsFile' = bidsFile
               /\ state'.isRunning => timers' = {state'.intervalId}

\* the engine runs after a failed cycle, the bound on cycles not yet used up
awaitsRetry(n) ==
    /\ state.isRunning
    /\ state.lastResult # NullResult
    /\ ~state.lastResult.success
    /\ state.cycleCount = n
    /\ used.engine < MaxEngineCycles

C11_SourceUnavailable ==
    /\ []C11_FailedCycleSilent
    /\ [][C11_FailedCycleStored]_vars
    /\ \A n \in 1..(MaxEngineCycles - 1) :
          awaitsRetry(n) ~> (~state.isRunning \/ state.cycleCount > n)

\* after a cycle whose fetch failed was stored, the engine still running, a
\* later cycle begun by the timer is in flight
C11_Witness ==
    /\ state.isRunning
    /\ state.lastResult # NullResult
    /\ ~state.lastResult.success
    /\ state.lastResult.message = ""
    /\ state.lastResult.cycle = 1
    /\ \E h \in CycleSlots :
          cyc[h].origin = "engine" /\ cyc[h].n = 2 /\ cyc[h].pc = "loop"

\* ---- C12
\* C12: a start of the stopped engine sets isRunning, leaves cycleCount at 1
\* (reset to 0, then the first cycle), begins exactly one cycle, numbered 1,
\* and arms exactly one timer; while the engine stays running the timer
\* keeps starting cycles (as long as the bound on cycles allows).
startedSlots == {h \in CycleSlots : cyc[h].pc = "idle" /\ cyc'[h].pc # "idle"}

C12_StartStep ==
    (~state.isRunning /\ state'.isRunning)
        => /\ state'.cycleCount = 1
           /\ Cardinality(startedSlots) = 1
           /\ \A h \in startedSlots : cyc'[h].origin = "engine" /\ cyc'[h].n = 1
           /\ \A h \in CycleSlots \ startedSlots : cyc'[h] = cyc[h]
           /\ timers = {}
           /\ Cardinality(timers') = 1
           /\ timers' = {state'.intervalId}

awaitsTimer(n) ==
    /\ state.isRunning
    /\ state.cycleCount = n
    /\ used.engine < MaxEngineCycles

C12_StartRunsAndArms ==
    /\ [][C12_StartStep]_vars
    /\ \A n \in 1..(MaxEngineCycles - 1) :
          awaitsTimer(n) ~> (~state.isRunning \/ state.cycleCount = n + 1)

\* the engine was started and its timer has begun the second cycle while
\* the first is still in flight
C12_Witness ==
    /\ state.isRunning
    /\ state.cycleCount = 2
    /\ Cardinality(timers) = 1
    /\ \E g \in CycleSlots, h \in CycleSlots :
          /\ cyc[g].origin = "engine" /\ cyc[g].n = 1 /\ cyc[g].pc # "idle"
          /\ cyc[h].origin = "engine" /\ cyc[h].n = 2 /\ cyc[h].pc # "idle"

\* ---- C13
\* C13: a start request answered while the engine runs gets the
\* already-running response and changes nothing: not the engine state, not
\* the armed timer, not the cycles in flight, not the ledger.
startReplies == {"Engine started", "Engine already running"}

C13_StartWhileRunning ==
    [][(state.isRunning /\ reply' # reply /\ reply'.message \in startReplies)
          => /\ reply' = Response(TRUE, "Engine already running", 0)
             /\ state' = state
             /\ timers' = timers
             /\ Cardinality(timers') = 1
             /\ cyc' = cyc
             /\ bidsFile' = bidsFile]_vars

\* a start request was answered "already running" while a cycle was in flight
C13_Witness ==
    /\ reply = Response(TRUE, "Engine already running", 0)
    /\ state.isRunning
    /\ state.cycleCount = 1
    /\ \E h \in CycleSlots : cyc[h].origin = "engine" /\ cyc[h].pc = "submitting"

\* ---- C14
\* C14: a stop of the running engine cancels the timer, clears isRunning and
\* reports the cycleCount; while the engine is stopped no timer is armed and
\* no step begins an engine cycle; a stop of the stopped engine gets the
\* not-running response and changes nothing.
stopReplies == {"Stopped after ${cycles} cycles", "Engine not running"}

C14_StopStep ==
    /\ (state.isRunning /\ ~state'.isRunning)
          => /\ timers' = {}
             /\ state'.intervalId = 0
             /\ state'.cycleCount = state.cycleCount
             /\ reply' = Response(TRUE, "Stopped after ${cycles} cycles", state.cycleCount)
             /\ cyc' = cyc
    /\ (~state.isRunning /\ ~state'.isRunning)
          => /\ \A h \in startedSlots : cyc'[h].origin # "engine"
             /\ state'.cycleCount = state.cycleCount
    /\ (~state.isRunning /\ reply' # reply /\ reply'.message \in stopReplies)
          => /\ reply' = Response(FALSE, "Engine not running", 0)
             /\ state' = state
             /\ timers' = timers
             /\ cyc' = cyc

C14_StopCancels ==
    /\ [](~state.isRunning => timers = {})
    /\ [][C14_StopStep]_vars

\* the engine was stopped after its second cycle had begun
C14_Witness ==
    /\ ~state.isRunning
    /\ reply = Response(TRUE, "Stopped after ${cycles} cycles", 2)
    /\ state.cycleCount = 2
    /\ timers = {}

\* ---- C15
\* C15: a cycle in flight when the engine is stopped still runs to its end,
\* every job it submitted to has a record in the ledger when it ends, and
\* its summary becomes lastResult while the engine is stopped.
engineCycles == {h \in CycleSlots : cyc[h].origin = "engine" /\ cyc[h].pc # "idle"}

C15_AttemptsRecorded ==
    \A h \in engineCycles :
        (~state.isRunning /\ cyc[h].pc = "done")
            => JobsOf(cyc[h].results) \subseteq JobsOf(bidsFile)

C15_SummaryStored ==
    \A h \in engineCycles :
        (~state.isRunning /\ cyc'[h].pc = "idle")
            => /\ state'.lastResult = engineResult(cyc[h])
               /\ ~state'.isRunning

C15_StopKeepsInFlight ==
    /\ []C15_AttemptsRecorded
    /\ [][C15_SummaryStored]_vars
    /\ \A h \in CycleSlots :
          (~state.isRunning /\ h \in engineCycles) ~> (cyc[h].pc = "idle")

\* ---- C16
\* C16: after a restart over the persisted ledger, no cycle selects a job
\* that had a pending or won record in that ledger.
persistedActive ==
    {PersistedLedger[k].jobId :
        k \in {m \in 1..Len(PersistedLedger) : PersistedLedger[m].status \in {"pending", "won"}}}

C16_DedupSurvivesRestart ==
    [][\A h \in CycleSlots :
        (cyc[h].pc = "fetchJobs" /\ cyc'[h].pc = "loop")
            => \A k \in 1..Len(cyc'[h].openJobs) :
                  cyc'[h].openJobs[k] \notin persistedActive]_vars

\* ---- C17
\* C17: every completed POST to the bids route (from saveToHistory or from
\* another client) leaves the ledger one record longer, the new record in
\* it, and every record stored before still there with the same fields.
recordsOf(bids) == {bids[k] : k \in 1..Len(bids)}

postCompletes ==
    \/ \E h \in CycleSlots : cyc[h].pc = "saveWrite" /\ cyc'[h].written = cyc[h].written + 1
    \/ ext.kind = "POST" /\ ext' = NoRequest /\ used' = used

C17_AppendOnly ==
    [][postCompletes
          => /\ Len(bidsFile') = Len(bidsFile) + 1
             /\ recordsOf(bidsFile) \subseteq recordsOf(bidsFile')
             /\ Cardinality(recordsOf(bidsFile') \ recordsOf(bidsFile)) = 1]_vars

\* ---- C18
\* C18: a pending record is always within the list that GET returns to a
\* cycle, and is never cut off the list a POST builds from the ledger it
\* read.
idsOf(bids) == {bids[k].id : k \in 1..Len(bids)}

pendingIds(bids) == {bids[k].id : k \in {m \in 1..Len(bids) : bids[m].status = "pending"}}

C18_PendingKept ==
    /\ [](pendingIds(bidsFile) \subseteq idsOf(bidsGET(bidsFile).bids))
    /\ [][/\ (ext.kind = "none" /\ ext'.kind = "POST")
                => pendingIds(bidsFile) \subseteq idsOf(ext'.bids)
          /\ \A h \in CycleSlots :
                (cyc[h].pc = "saveLoad" /\ cyc'[h].pc = "saveWrite")
                    => pendingIds(bidsFile) \subseteq idsOf(cyc'[h].bids)]_vars

\* ---- C19
\* C19: a PATCH for a bidId that is not in the ledger answers "Bid not
\* found" and leaves the ledger as it is; a PATCH that completes leaves the
\* ledger as it was but for the status, and the message when one is given,
\* of the record with that bidId.
patchNotFound ==
    /\ ext.kind = "none"
    /\ ext' = NoRequest
    /\ used'.external = used.external + 1

patchCompletes ==
    /\ ext.kind = "PATCH"
    /\ ext' = NoRequest
    /\ used' = used

C19_UpdateStatusFrame ==
    [][/\ patchNotFound
            => /\ reply' = ErrorResponse(404, "Bid not found")
               /\ bidsFile' = bidsFile
       /\ patchCompletes
            => /\ Len(bidsFile') = Len(bidsFile)
               /\ \A k \in 1..Len(bidsFile) :
                     IF bidsFile[k].id = ext.body.bidId
                     THEN /\ bidsFile'[k].status = ext.body.status
                          /\ bidsFile'[k].message \in {bidsFile[k].message, ext.body.message}
                          /\ \A f \in {"id", "jobId", "agent", "bidAmount"} :
                                bidsFile'[k][f] = bidsFile[k][f]
                     ELSE bidsFile'[k] = bidsFile[k]]_vars

\* ---- C20
\* C20: the status of every record in the ledger is one of pending, won,
\* lost, failed.
BidStatuses == {"pending", "won", "lost", "failed"}

C20_StatusEnum ==
    \A k \in 1..Len(bidsFile) : bidsFile[k].status \in BidStatuses

\* ---- C21
\* C21: for a balance above 0 a spend is approved exactly when amount /
\* balance is at most 5%, and a refused one leaves a PENDING request with
\* that ratio; for a balance of 0 no spend is approved, amount 0 included.
spendReturned == treasury.outcome.call = "spend" /\ ~treasury.outcome.thrown

lastRequest == treasury.oversightQueue[Len(treasury.oversightQueue)]

C21_GuardrailSafety ==
    spendReturned =>
        LET amount == treasury.outcome.amount
            balance == treasury.outcome.balance
            result == treasury.outcome.result
        IN  /\ balance > 0 =>
                  (result.success <=> amount * ThresholdDen <= ThresholdNum * balance)
            /\ (balance > 0 /\ ~result.success) =>
                  /\ result.requiresOversight
                  /\ Len(treasury.oversightQueue) > 0
                  /\ lastRequest.status = "PENDING"
                  /\ lastRequest.treasuryPercentage = Quotient("ratio", amount, balance)
            /\ balance = 0 => ~result.success

\* ---- C22
\* C22: a spend whose balance read fails ends with a result, not a thrown
\* error, and the result is success false with oversight required.
C22_FailSafeOnMissingBalance ==
    (treasury.outcome.call = "spend" /\ ~treasury.outcome.balanceRead)
        => /\ ~treasury.outcome.thrown
           /\ ~treasury.outcome.result.success
           /\ treasury.outcome.result.requiresOversight

\* ---- C23
\* C23: a request is created PENDING with its spend refused; its status
\* changes only from PENDING, only in a step of approveOversight or
\* rejectOversight for its id that returns true; a call that returns false
\* (unknown id, or a request not PENDING) changes no request.
decideCalls == {"approveOversight", "rejectOversight"}

statusSet(call) == IF call = "approveOversight" THEN "APPROVED" ELSE "REJECTED"

C23_RequestStep ==
    LET queue == treasury.oversightQueue
        queue2 == treasury'.oversightQueue
        outcome2 == treasury'.outcome
    IN  /\ Len(queue2) >= Len(queue)
        /\ \A k \in 1..Len(queue) :
              /\ queue2[k].id = queue[k].id
              /\ queue2[k].amount = queue[k].amount
              /\ queue2[k].status # queue[k].status
                    => /\ queue[k].status = "PENDING"
                       /\ outcome2.call \in decideCalls
                       /\ outcome2.id = queue[k].id
                       /\ outcome2.returned
                       /\ queue2[k].status = statusSet(outcome2.call)
        /\ \A k \in (Len(queue) + 1)..Len(queue2) :
              /\ queue2[k].status = "PENDING"
              /\ outcome2.call = "spend"
              /\ ~outcome2.result.success
        /\ (outcome2.call \in decideCalls /\ ~outcome2.returned) => queue2 = queue

C23_OversightBlocks == [][C23_RequestStep]_vars

\* a request was approved and a later reject of it was refused
C23_Witness ==
    /\ treasury.outcome = [call |-> "rejectOversight", id |-> 1, returned |-> FALSE]
    /\ Len(treasury.oversightQueue) = 1
    /\ treasury.oversightQueue[1].status = "APPROVED"

\* ---- C24
\* C24: once checkExpirations has run after a request's expiration time, the
\* request is no longer PENDING (so getPendingOversight does not list it),
\* and no request is approved after its expiration time.
expired(r) == treasury.now - r.createdAt > expirationMinutes

C24_ExpiredNotPending ==
    treasury.outcome.call = "checkExpirations"
        => \A k \in 1..Len(treasury.oversightQueue) :
              expired(treasury.oversightQueue[k])
                  => treasury.oversightQueue[k].status # "PENDING"

C24_NoLateApproval ==
    \A k \in 1..Len(treasury.oversightQueue) :
        (treasury.oversightQueue[k].status = "PENDING"
         /\ treasury'.oversightQueue[k].status = "APPROVED")
            => ~expired(treasury.oversightQueue[k])

C24_RequestsExpire ==
    /\ []C24_ExpiredNotPending
    /\ [][C24_NoLateApproval]_vars


\* ------------------------------------------------------------------- C25
\* a skill occurs in a job when the lower-cased title, the lower-cased
\* description or one lower-cased tag contains it
occursIn(job, skill) ==
    \/ includes(toLowerCase(job.title), skill)
    \/ includes(toLowerCase(job.description), skill)
    \/ \E t \in 1..Len(job.tags) : includes(toLowerCase(job.tags[t]), skill)

skillSet(agent) == {AGENTS[agent][k] : k \in 1..Len(AGENTS[agent])}

called(call) == call.job # NullResult

\* C25: after every call of findBestAgent, each profile's score is
\* SkillWeight (12) times the number of distinct skills of the profile that
\* occur in the lower-cased title, description or tags of the job; a skill
\* that occurs several times counts once.
C25_Scoring ==
    called(match.last) =>
        \A agent \in DOMAIN AGENTS :
            match.last.scores[agent] =
                SkillWeight * Cardinality({skill \in skillSet(agent) :
                                              occursIn(match.last.job, skill)})

\* m1 holds "api" twice, as "API" and as "api": BACKEND scores 12, not 24
C25_Witness ==
    /\ called(match.last)
    /\ match.last.job.id = "m1"
    /\ match.last.scores["BACKEND"] = SkillWeight


\* ------------------------------------------------------------------- C26
maxScore(call) ==
    CHOOSE m \in {call.scores[a] : a \in DOMAIN AGENTS} :
        \A a \in DOMAIN AGENTS : call.scores[a] <= m

\* the first agent, in the order of declaration, whose score is the maximum
firstAtMax(call) ==
    AgentOrder[CHOOSE k \in 1..Len(AgentOrder) :
        /\ call.scores[AgentOrder[k]] = maxScore(call)
        /\ \A i \in 1..(k - 1) : call.scores[AgentOrder[i]] < maxScore(call)]

\* C26: the agent findBestAgent returns has the maximum score of all
\* profiles; among several profiles with the maximum score the one declared
\* first (BACKEND, CONTRACT, FRONTEND, PM) is returned; when every profile
\* scores 0 the result is PM with score 0; so a job in which some skill of
\* some profile occurs is assigned with a score of at least SkillWeight (12).
C26_Assignment ==
    called(match.last) =>
        /\ match.last.best.score = maxScore(match.last)
        /\ maxScore(match.last) > 0 =>
               match.last.best.agent = firstAtMax(match.last)
        /\ maxScore(match.last) = 0 =>
               match.last.best = [agent |-> "PM", score |-> 0]
        /\ (\E a \in DOMAIN AGENTS : \E skill \in skillSet(a) :
                occursIn(match.last.job, skill))
               => match.last.best.score >= SkillWeight

\* a tie at the maximum between two profiles, neither of them the first
\* declared: m8 scores 12 for FRONTEND and 12 for PM, FRONTEND is returned
C26_Witness ==
    /\ called(match.last)
    /\ match.last.scores["FRONTEND"] = match.last.scores["PM"]
    /\ match.last.scores["FRONTEND"] = maxScore(match.last)
    /\ maxScore(match.last) > 0
    /\ match.last.best.agent = "FRONTEND"

indexIn(list, j) == CHOOSE k \in 1..Len(list) : list[k] = j

\* the candidates of a cycle are in non-increasing reward order, jobs of
\* equal reward in the order of the fetched list
C28_Sorted ==
    \A h \in CycleSlots :
        LET c == cyc[h]
        IN  \A p, q \in 1..Len(c.openJobs) :
                p < q =>
                    /\ Job[c.openJobs[p]].reward >= Job[c.openJobs[q]].reward
                    /\ Job[c.openJobs[p]].reward = Job[c.openJobs[q]].reward
                           => indexIn(c.jobs, c.openJobs[p]) < indexIn(c.jobs, c.openJobs[q])

\* the submissions of a cycle follow the order of its candidates
C28_InOrder ==
    \A h \in CycleSlots :
        LET c == cyc[h]
        IN  \A p, q \in 1..Len(c.results) :
                p < q =>
                    /\ indexIn(c.openJobs, c.results[p].jobId)
                           < indexIn(c.openJobs, c.results[q].jobId)
                    /\ c.results[p].reward >= c.results[q].reward

\* a submit call starts from the loop only, the loop is re-entered only when
\* the save of the last result is over, and a completed save has put the
\* record of the last result at the head of the ledger
C28_Step ==
    \A h \in CycleSlots :
        /\ (cyc[h].pc # "submitting" /\ cyc'[h].pc = "submitting")
               => /\ cyc[h].pc = "loop"
                  /\ cyc[h].bids = <<>>
        /\ (cyc[h].pc # "loop" /\ cyc'[h].pc = "loop")
               => cyc[h].pc \in {"fetchJobs", "saveLoad", "saveWrite"}
        /\ (cyc[h].pc = "saveWrite" /\ cyc'[h].written = cyc[h].written + 1)
               => LET last == cyc[h].results[Len(cyc[h].results)]
                  IN  /\ bidsFile'[1].jobId = last.jobId
                      /\ bidsFile'[1].bidAmount = last.reward
                      /\ \A p \in 1..Len(cyc[h].results) :
                             cyc[h].results[p].reward >= bidsFile'[1].bidAmount

\* C28: within one cycle the candidates are processed one at a time in
\* non-increasing reward order, equal rewards in source order; the submit
\* call for a candidate starts only after the ledger write of the previous
\* one is over, so the records a cycle appends come in non-increasing
\* reward order.
C28_SequentialByReward ==
    /\ [](C28_Sorted /\ C28_InOrder)
    /\ [][C28_Step]_vars

\* a cycle that fetched j3 and j1 (equal rewards, j3 first) behind the
\* lower-paid j2, submitted to j3, then to j1, and wrote both records
C28_Witness ==
    \E h \in CycleSlots :
        /\ cyc[h].jobs = <<"j2", "j3", "j1", "j4", "j5">>
        /\ cyc[h].openJobs = <<"j3", "j1", "j2">>
        /\ Len(cyc[h].results) = 2
        /\ cyc[h].results[1].jobId = "j3" /\ cyc[h].results[2].jobId = "j1"
        /\ cyc[h].written = 2
        /\ Len(bidsFile) >= 2
        /\ bidsFile[1].jobId = "j1" /\ bidsFile[2].jobId = "j3"


\* ------------------------------------------------------------------- C29
\* the job was in the list the cycle fetched, open and with a reward
eligibleIn(c, j) ==
    /\ \E k \in 1..Len(c.jobs) : c.jobs[k] = j
    /\ Job[j].status = "open"
    /\ Job[j].reward > 0

\* every submit call a cycle is making or has made is for an eligible job
C29_SubmitsEligible ==
    \A h \in CycleSlots :
        /\ cyc[h].pc = "submitting" => eligibleIn(cyc[h], cyc[h].openJobs[cyc[h].i])
        /\ \A p \in 1..Len(cyc[h].results) : eligibleIn(cyc[h], cyc[h].results[p].jobId)

\* every record a cycle writes is the record of an eligible job
C29_RecordsEligible ==
    \A h \in CycleSlots :
        (cyc[h].pc = "saveWrite" /\ cyc'[h].written = cyc[h].written + 1)
            => eligibleIn(cyc[h], bidsFile'[1].jobId)

\* C29: a cycle makes a submit call only for jobs the fetch returned with
\* status open and a reward above 0; a job that is claimed (or in any other
\* status than open) or has reward 0 is never submitted to and never
\* recorded by a cycle.
C29_Eligibility ==
    /\ []C29_SubmitsEligible
    /\ [][C29_RecordsEligible]_vars

\* a cycle that was offered the claimed j4 and the unpaid j5, both matching
\* skills, has ended with submissions and records
C29_Witness ==
    \E h \in CycleSlots :
        /\ cyc[h].pc = "done"
        /\ \E k \in 1..Len(cyc[h].jobs) : cyc[h].jobs[k] = "j4"
        /\ \E k \in 1..Len(cyc[h].jobs) : cyc[h].jobs[k] = "j5"
        /\ BestAgentOf["j4"].score >= cyc[h].minMatchScore
        /\ BestAgentOf["j5"].score >= cyc[h].minMatchScore
        /\ cyc[h].results # <<>>
        /\ cyc[h].written > 0


\* ------------------------------------------------------------------- C30
recordedJobs(bids) == {bids[k].jobId : k \in 1..Len(bids)}

\* every record of job j in the ledger is failed or lost
onlyFailedOrLost(bids, j) ==
    \A k \in 1..Len(bids) :
        bids[k].jobId = j => bids[k].status \in {"failed", "lost"}

\* the set of jobs a cycle will skip, when it has loaded it: under v5 every
\* job with a record in the ledger, whatever the status; under v2 no job
\* whose records are all failed or lost
C30_Load ==
    \A h \in CycleSlots :
        (cyc[h].pc = "loadBids" /\ cyc'[h].pc = "fetchJobs")
            => /\ policy = "v5"
                     => recordedJobs(bidsFile) \subseteq cyc'[h].attemptedJobIds
               /\ policy # "v5"
                     => \A j \in recordedJobs(bidsFile) :
                           onlyFailedOrLost(bidsFile, j)
                               => j \notin cyc'[h].attemptedJobIds

\* the candidates a cycle selects: no job of the set it skips, and every
\* other job of the fetched list that is open with a reward
C30_Select ==
    \A h \in CycleSlots :
        (cyc[h].pc = "fetchJobs" /\ cyc'[h].pc = "loop")
            => \A k \in 1..Len(cyc'[h].jobs) :
                  LET j == cyc'[h].jobs[k]
                      candidate == \E m \in 1..Len(cyc'[h].openJobs) :
                                       cyc'[h].openJobs[m] = j
                  IN  /\ j \in cyc[h].attemptedJobIds => ~candidate
                      /\ (j \notin cyc[h].attemptedJobIds
                             /\ Job[j].status = "open" /\ Job[j].reward > 0)
                            => candidate

\* C30: under the v5 cycle a job that has any ledger record, in any status,
\* is never a candidate; under the v2 cycle a job whose records are all
\* failed or lost is a candidate again in the next cycle that finds it open.
C30_DedupPolicy == [][C30_Load /\ C30_Select]_vars


\* ------------------------------------------------------------------- C31
\* cycle h completes the write of a record
cycleWrites(h) ==
    cyc[h].pc = "saveWrite" /\ cyc'[h].written = cyc[h].written + 1

\* the record a cycle is about to write: the job the loop is at, with the
\* reward of that job as its amount
C31_Prepared ==
    \A h \in CycleSlots :
        cyc[h].pc = "saveWrite"
            => /\ cyc[h].bids[1].jobId = cyc[h].openJobs[cyc[h].i]
               /\ cyc[h].bids[1].bidAmount = Job[cyc[h].openJobs[cyc[h].i]].reward

\* the record a cycle has written
C31_Written ==
    \A h \in CycleSlots :
        cycleWrites(h)
            => /\ bidsFile'[1].jobId = cyc[h].openJobs[cyc[h].i]
               /\ bidsFile'[1].bidAmount = Job[bidsFile'[1].jobId].reward

\* C31: every record a cycle writes carries as bidAmount the reward of the
\* job it was written for, whichever agent was chosen and whatever the
\* submission returned.
C31_AmountIsReward ==
    /\ []C31_Prepared
    /\ [][C31_Written]_vars

\* a cycle has recorded a refused submission, and the record at the head of
\* the ledger carries the job's reward
C31_Witness ==
    \E h \in CycleSlots :
        /\ cyc[h].written > 0
        /\ cyc[h].pc = "loop"
        /\ ~cyc[h].results[Len(cyc[h].results)].success
        /\ Len(bidsFile) > 0
        /\ bidsFile[1].jobId = cyc[h].results[Len(cyc[h].results)].jobId
        /\ bidsFile[1].status # "pending"
        /\ bidsFile[1].bidAmount = Job[bidsFile[1].jobId].reward
        /\ bidsFile[1].bidAmount > 0


\* ------------------------------------------------------------------- C32
\* C32: a control request whose action is neither start nor stop, or is
\* missing, is answered with status 400 and success false, and changes
\* nothing: not the engine state, not the timers, not the cycles in flight,
\* not the ledger; every other control answer has status 200.
C32_InvalidControlAction ==
    /\ [](reply.status = 400 <=>
             reply.message = "Invalid action. Use \"start\" or \"stop\".")
    /\ [][(reply' # reply /\ reply'.status = 400)
            => /\ ~reply'.success
               /\ state' = state
               /\ timers' = timers
               /\ cyc' = cyc
               /\ used' = used
               /\ bidsFile' = bidsFile]_vars

\* an invalid action was answered while the engine ran with a cycle in
\* flight: the engine still runs, its timer is armed
C32_Witness ==
    /\ reply.status = 400
    /\ ~reply.success
    /\ state.isRunning
    /\ Cardinality(timers) = 1
    /\ \E h \in CycleSlots : cyc[h].origin = "engine" /\ cyc[h].pc = "submitting"


\* ------------------------------------------------------------------- C33
\* the engine has run and stopEngine has stopped it
explicitlyStopped == ~state.isRunning /\ state.startedAt # 0

statusReplies == {"status"}

\* C33: once stopEngine has stopped a running engine, no getEngineStatus
\* call starts it again (only a start request does), and a status call
\* leaves isRunning, cycleCount and the timers as they are.
C33_NoAutoStartAfterStop ==
    [][/\ (explicitlyStopped /\ state'.isRunning)
             => reply'.message = "Engine started"
       /\ (explicitlyStopped /\ reply' # reply /\ reply'.message \in statusReplies)
             => /\ state'.isRunning = state.isRunning
                /\ state'.cycleCount = state.cycleCount
                /\ timers' = timers]_vars


\* ------------------------------------------------------------------- C34
\* C34: in every state the engine reaches by start, stop and status calls,
\* isRunning is true exactly when intervalId is set, the armed timers are
\* that one timer while it runs and none while it is stopped: at most one
\* timer is armed.
C34_RunningIffArmed ==
    /\ state.isRunning <=> state.intervalId # 0
    /\ state.isRunning => timers = {state.intervalId}
    /\ ~state.isRunning => timers = {}
    /\ Cardinality(timers) <= 1

\* the engine runs again after a stop: one timer, the one of the last start
C34_Witness ==
    /\ state.isRunning
    /\ used.engine = 2
    /\ state.cycleCount = 1
    /\ timers = {state.intervalId}
    /\ state.startedAt > 1


\* ------------------------------------------------------------------- C35
\* an engine cycle begins in this step
cycleBegins == used'.engine = used.engine + 1

\* the slot of the cycle that begins in this step
beginsIn(h) == cyc[h].pc = "idle" /\ cyc'[h].pc # "idle" /\ cyc'[h].origin = "engine"

\* C35: cycleCount changes only when a cycle begins: to 1 when the cycle is
\* the one a start runs (the reset to 0, then the first cycle), by +1 when
\* the timer begins it; so between two starts it never decreases and is
\* the number of cycles begun since the last start, which is also the
\* number the cycle that begins is given.
C35_CountStep ==
    /\ cycleBegins
          => /\ state'.cycleCount = IF state.isRunning THEN state.cycleCount + 1 ELSE 1
             /\ \E h \in CycleSlots : beginsIn(h) /\ cyc'[h].n = state'.cycleCount
    /\ ~cycleBegins
          => /\ state'.cycleCount = state.cycleCount
             /\ \A h \in CycleSlots : ~beginsIn(h)
    /\ state.isRunning /\ state'.isRunning
          => state'.cycleCount >= state.cycleCount

C35_CycleCountMonotonic ==
    /\ [](state.cycleCount >= 0 /\ state.cycleCount <= used.engine)
    /\ [][C35_CountStep]_vars

\* the timer has begun the second cycle of a run and the first has ended:
\* the count is 2 with one cycle in flight
C35_Witness ==
    /\ state.isRunning
    /\ state.cycleCount = 2
    /\ state.lastResult # NullResult
    /\ \E h \in CycleSlots : cyc[h].origin = "engine" /\ cyc[h].n = 2 /\ cyc[h].pc # "idle"
    /\ \A h \in CycleSlots : cyc[h].n # 1


\* ------------------------------------------------------------------- C36
engineInFlight == {h \in CycleSlots : cyc[h].pc # "idle" /\ cyc[h].origin = "engine"}

\* C36: whenever no engine cycle is in flight, lastResult is the summary of
\* the cycle that began last, the one numbered cycleCount, in whatever
\* order the cycles that were started have ended.
C36_LastResultIsLatest ==
    (engineInFlight = {} /\ state.cycleCount > 0)
        => /\ state.lastResult # NullResult
           /\ state.lastResult.cycle = state.cycleCount


\* ------------------------------------------------------------------- C37
\* the cycle is past its ledger read and the read did not succeed
ledgerReadFailed(c) ==
    c.pc \in {"fetchJobs", "loop", "submitting", "saveLoad", "saveWrite", "done"}
        /\ ~c.ledgerRead

\* C37: a cycle whose ledger read at its start failed makes no submit call:
\* it is never waiting for a submit and has no submission in its results.
C37_NoSubmitWithoutLedger ==
    \A h \in CycleSlots :
        ledgerReadFailed(cyc[h])
            => /\ cyc[h].pc # "submitting"
               /\ cyc[h].results = <<>>


C39_StatsPartition ==
    LET stats == bidsGET(bidsFile).stats
    IN  /\ stats.total = stats.pending + stats.won + stats.lost + stats.failed
        /\ stats.total = Len(bidsFile)


\* ------------------------------------------------------------------- C40
\* the jobs a cycle has submitted to, one entry per submit call
submittedJobs(c) == [p \in 1..Len(c.results) |-> c.results[p].jobId]

\* no job twice among the submit calls of one cycle
C40_OneAttempt ==
    \A h \in CycleSlots :
        \A p, q \in 1..Len(cyc[h].results) :
            p # q => submittedJobs(cyc[h])[p] # submittedJobs(cyc[h])[q]

\* an engine cycle that ends stores its own summary as lastResult
C40_Stored ==
    \A h \in CycleSlots :
        (cyc[h].origin = "engine" /\ cyc[h].pc # "idle" /\ cyc'[h].pc = "idle")
            => /\ state'.lastResult = engineResult(cyc[h])
               /\ state'.lastResult.cycle = cyc[h].n
               /\ cyc[h].pc = "done"
                     => state'.lastResult.submissionsSuccessful = cyc[h].submitCount

\* C40: provided every call a cycle waits for returns or fails, a started
\* cycle submits at most once to each candidate, ends, and stores its
\* summary as lastResult, also when the ledger read, the fetch, a submit or
\* a ledger write has failed.
C40_CycleTerminates ==
    /\ []C40_OneAttempt
    /\ [][C40_Stored]_vars
    /\ \A h \in CycleSlots :
          (cyc[h].pc # "idle")
              ~> (/\ cyc[h].pc = "idle"
                  /\ state.lastResult # NullResult
                  /\ state.lastResult.cycle = state.cycleCount)

\* a cycle with two candidates, one of whose submits was refused and one of
\* whose ledger calls failed, has ended: its summary is lastResult
C40_Witness ==
    /\ \A h \in CycleSlots : cyc[h].pc = "idle"
    /\ used.faults = 1
    /\ state.lastResult # NullResult
    /\ state.lastResult.success
    /\ state.lastResult.submissionsFailed = 1
    /\ Len(state.lastResult.results) = 2

====
